---- MODULE Spec2Model ----
(***************************************************************************)
(* A model of the admin client of the CA (ca/adminClient.go): the request  *)
(* protocol of its operations (token minting, single retry with transport  *)
(* swap, response decoding) and the cursor pagination of GetAdmins and     *)
(* GetProvisioners.                                                        *)
(*                                                                         *)
(* Text is modelled as a sequence of symbols.  A symbol is either a        *)
(* special character ("/", "&", "=", "%", "+", " ", a digit) or a word of  *)
(* unreserved characters ("admin", "c1") that no conversion looks into.    *)
(***************************************************************************)
EXTENDS Integers, Sequences, FiniteSets, TLC

(***************************************************************************)
(* Bounds of the model.                                                    *)
(***************************************************************************)
\* logical calls a process makes one after the other
MaxCalls == 1
\* pages with a next-cursor the server returns to one aggregation, at most
MaxPages == 2

\* minutes the clock advances, at most
MaxTime == 2

\* the page size GetAdmins and GetProvisioners ask for
PageLimit == 100

(***************************************************************************)
(* Text helpers.                                                           *)
(***************************************************************************)
Empty == <<>>

RECURSIVE Concat(_)
\* the concatenation of a sequence of texts
Concat(ss) == IF ss = <<>> THEN <<>> ELSE Head(ss) \o Concat(Tail(ss))

RECURSIVE JoinWith(_, _)
\* the texts of ss with sep between them
JoinWith(ss, sep) ==
    IF ss = <<>> THEN <<>>
    ELSE IF Len(ss) = 1 THEN ss[1]
    ELSE ss[1] \o sep \o JoinWith(Tail(ss), sep)

HasPrefix(s, pre) == Len(s) >= Len(pre) /\ SubSeq(s, 1, Len(pre)) = pre

HasSuffix(s, suf) ==
    Len(s) >= Len(suf) /\ SubSeq(s, Len(s) - Len(suf) + 1, Len(s)) = suf

\* the symbols of the decimal digits
DigitSym == <<"0", "1", "2", "3", "4", "5", "6", "7", "8", "9">>

RECURSIVE Itoa(_)
\* strconv.Itoa for n >= 0: the decimal digits of n
Itoa(n) ==
    IF n < 10 THEN <<DigitSym[n + 1]>>
    ELSE Itoa(n \div 10) \o <<DigitSym[(n % 10) + 1]>>

\* the symbols url.QueryEscape rewrites, and what it writes for them
EscapeOf(ch) ==
    CASE ch = "&" -> <<"%", "2", "6">>
      [] ch = "=" -> <<"%", "3", "D">>
      [] ch = "%" -> <<"%", "2", "5">>
      [] ch = "/" -> <<"%", "2", "F">>
      [] ch = "+" -> <<"%", "2", "B">>
      [] ch = " " -> <<"+">>
      [] OTHER -> <<ch>>

RECURSIVE QueryEscape(_)
QueryEscape(s) ==
    IF s = <<>> THEN <<>> ELSE EscapeOf(Head(s)) \o QueryEscape(Tail(s))

\* url.Values.Encode: key=value pairs, sorted by key, joined with "&";
\* kvs is the sequence of <<key, value>> pairs in key order
Encode(kvs) ==
    JoinWith([i \in 1..Len(kvs) |->
                 QueryEscape(kvs[i][1]) \o <<"=">> \o QueryEscape(kvs[i][2])],
             <<"&">>)

\* path.Join: the non-empty elements joined with "/"
PathJoin(elems) == JoinWith(SelectSeq(elems, LAMBDA e : e # <<>>), <<"/">>)

RECURSIVE LastSlash(_)
\* the index of the last "/" of p, 0 when it has none
LastSlash(p) ==
    IF p = <<>> THEN 0
    ELSE IF p[Len(p)] = "/" THEN Len(p)
    ELSE LastSlash(SubSeq(p, 1, Len(p) - 1))

\* url.URL.ResolveReference on the paths: an absolute reference replaces the
\* base path, a relative one is merged with the base path's directory
ResolveReference(base, ref) ==
    IF ref # <<>> /\ ref[1] = "/" THEN ref
    ELSE IF base = <<>> THEN <<"/">> \o ref
    ELSE SubSeq(base, 1, LastSlash(base)) \o ref

adminURLPrefix == <<"admin">>

(***************************************************************************)
(* Values.                                                                 *)
(***************************************************************************)
Procs == {"p1", "p2"}

\* status codes the server answers with
Statuses == {200, 401, 500}

\* a retry predicate is the set of the status codes it accepts; NoFunc is
\* the nil RetryFunc
NoFunc == {-1}
RetryFuncs == {NoFunc, {}, {401}, {401, 500}, {200, 401, 500}}

\* paths of the configured endpoint
Endpoints == {Empty, <<"/", "ca", "/">>}

\* identifiers and names the caller passes
Ids == {Empty, <<"id1">>}
Names == {Empty, <<"n1">>}

\* marshalled request bodies
Payloads == {<<"body1">>}
NoBody == Empty

\* cursors the server returns
Cursors == {Empty, <<"c1">>, <<"c2", "&">>}

\* page sizes the caller passes (0: none)
Limits == {0, 25}

\* messages of the server's error bodies
Msgs == {<<"m1">>, <<"m2">>}

NoToken == [jti |-> <<"none", 0, 0>>, aud |-> Empty, nbf |-> 0, exp |-> 0]
NoReq == [method |-> "none", path |-> Empty, query |-> Empty,
          auth |-> NoToken, body |-> NoBody]
NoResp == [status |-> 0, good |-> FALSE, msg |-> Empty,
           items |-> <<>>, next |-> Empty]
NoOut == [kind |-> "none", err |-> "none", msg |-> Empty,
          isNil |-> TRUE, val |-> <<>>, next |-> Empty]
NoTr == 0 - 1

OutOk(v) == [kind |-> "ok", err |-> "none", msg |-> Empty,
             isNil |-> FALSE, val |-> v, next |-> Empty]
\* a decoded page: its items and its next-cursor
OutPage(v, nx) == [kind |-> "ok", err |-> "none", msg |-> Empty,
                   isNil |-> FALSE, val |-> v, next |-> nx]
\* a body-less success: a nil error and nothing else
OutNil == [kind |-> "ok", err |-> "none", msg |-> Empty,
           isNil |-> TRUE, val |-> <<>>, next |-> Empty]
OutErr(e, m) == [kind |-> "err", err |-> e, msg |-> m,
                 isNil |-> TRUE, val |-> <<>>, next |-> Empty]

\* the operations that send requests
PageOps == {"GetAdminsPaginate", "GetProvisionersPaginate"}
ProtoOps == {"GetAdmin", "CreateAdmin", "UpdateAdmin", "GetProvisioner",
             "CreateProvisioner"}
BodylessOps == {"RemoveAdmin", "RemoveProvisioner", "UpdateProvisioner"}
Ops == PageOps \cup ProtoOps \cup BodylessOps
Aggs == {"GetAdmins", "GetProvisioners"}

(***************************************************************************)
(* State.                                                                  *)
(***************************************************************************)
VARIABLES
    endpoint,    \* AdminClient.endpoint: the path of the endpoint URL
    retryFunc,   \* AdminClient.retryFunc
    x5cJWK,      \* AdminClient.x5cJWK: the signing key, or nil
    transport,   \* the transport handle of AdminClient.client
    now,         \* the clock time.Now reads, in minutes
    call,        \* per process: the logical call it is executing
    mockDB,      \* a MockDB: its functions, MockRet1 and MockError
    dbCall       \* the last call of a method of mockDB and what it returned

vars == <<endpoint, retryFunc, x5cJWK, transport, now, call, mockDB, dbCall>>

\* the variables of the mock
mock == <<mockDB, dbCall>>

\* a process that has not called anything yet
IdleCall ==
    [pc |-> "idle",       \* idle, send, wait, page, done, panic
     n |-> 0,             \* logical calls started
     api |-> "none",      \* the operation the caller called
     opts |-> [id |-> Empty, name |-> Empty],   \* its selector options
     given |-> [cursor |-> Empty, limit |-> 0], \* opts of an aggregation
     tr0 |-> NoTr,        \* the transport handle when it was called
     op |-> "none",       \* the operation sending requests
     retried |-> FALSE,
     req |-> NoReq,
     reader |-> NoBody,   \* what is left to read of the body of req
     tr |-> NoTr,         \* the handle the request in flight was sent on
     resp |-> NoResp,
     open |-> {},         \* attempts whose response body is open
     sent |-> 0,          \* requests sent by this operation
     asked |-> 0,         \* times this operation consulted retryFunc
     swaps |-> 0,         \* times this operation swapped the transport
     rebuilt |-> "no",    \* no, ok, failed: the transport rebuild
     statuses |-> <<>>,   \* status codes this operation received
     wire |-> <<>>,       \* requests sent since the logical call began
     minted |-> 0,        \* tokens minted since the logical call began
     cursor |-> Empty,
     acc |-> <<>>,
     fetches |-> 0,       \* page fetches of the aggregation
     pages |-> <<>>,      \* pages the server returned to the aggregation
     ret |-> NoOut,       \* what the operation returned
     out |-> NoOut]       \* what the logical call returned

\* the methods of MockDB that return an error only
ErrorMethods ==
    {"CreateAccount", "UpdateAccount", "DeleteNonce", "CreateAuthorization",
     "UpdateAuthorization", "CreateCertificate", "CreateChallenge",
     "UpdateChallenge", "CreateOrder", "UpdateOrder"}

\* the methods of MockDB that return a value and an error, with the type of
\* the value
ResultType ==
    [GetAccount |-> "*Account", GetAccountByKeyID |-> "*Account",
     CreateNonce |-> "Nonce", GetAuthorization |-> "*Authorization",
     GetAuthorizationsByAccountID |-> "[]*Authorization",
     GetCertificate |-> "*Certificate",
     GetCertificateBySerial |-> "*Certificate",
     GetChallenge |-> "*Challenge", GetOrder |-> "*Order",
     GetOrdersByAccountID |-> "[]string"]

ValueMethods == DOMAIN ResultType
Methods == ErrorMethods \cup ValueMethods
Types == {ResultType[m] : m \in ValueMethods}

\* the zero value of a result type: Nonce("") or nil
Zero(t) == IF t = "Nonce" THEN "" ELSE "nil"

\* MockError: nil or an error
MockErrors == {"nil", "e1"}

\* MockRet1, an interface{}: nil, or a value of some result type
NoRet1 == [type |-> "none", val |-> "nil"]
Ret1s == {NoRet1} \cup {[type |-> t, val |-> "canned"] : t \in Types}

\* what the per-method functions of a mock return: a value, or an error
MockFuncOuts == {[val |-> "made", err |-> "nil"], [val |-> "nil", err |-> "e2"]}

\* the mocks: no function set, the function of one method, or all of them
MockDBs ==
    [fns : {{}, Methods} \cup {{m} : m \in Methods},
     fnOut : MockFuncOuts, MockRet1 : Ret1s, MockError : MockErrors]

\* MockDB{}
ZeroMockDB ==
    [fns |-> {}, fnOut |-> [val |-> "made", err |-> "nil"],
     MockRet1 |-> NoRet1, MockError |-> "nil"]

NoDBCall == [method |-> "none", kind |-> "none", val |-> "none",
             err |-> "nil"]

Init ==
    /\ endpoint \in Endpoints
    /\ retryFunc \in RetryFuncs
    /\ x5cJWK \in {"key", "nil"}
    /\ transport = 0
    /\ now = 0
    /\ call = [p \in Procs |-> IdleCall]
    /\ mockDB = ZeroMockDB
    /\ dbCall = NoDBCall

(***************************************************************************)
(* Options and URLs.                                                       *)
(***************************************************************************)
\* adminOptions after apply: WithAdminCursor and WithAdminLimit set a field
AdminOpts == [cursor : Cursors, limit : Limits]

\* adminOptions.rawQuery
rawQuery(o) ==
    Encode((IF Len(o.cursor) > 0
              THEN << << <<"cursor">>, o.cursor >> >> ELSE <<>>)
           \o (IF o.limit > 0
                 THEN << << <<"limit">>, Itoa(o.limit) >> >> ELSE <<>>))

\* provisionerOptions after apply
ProvOpts == [cursor : Cursors, limit : Limits, id : Ids, name : Names]
SelectorOpts == {o \in ProvOpts : o.cursor = Empty /\ o.limit = 0}
ListOpts == {o \in ProvOpts : o.id = Empty /\ o.name = Empty}

\* provisionerOptions.rawQuery: the cursor, id and limit parameters
provRawQuery(o) ==
    Encode((IF Len(o.cursor) > 0
              THEN << << <<"cursor">>, o.cursor >> >> ELSE <<>>)
           \o (IF Len(o.id) > 0
                 THEN << << <<"id">>, o.id >> >> ELSE <<>>)
           \o (IF o.limit > 0
                 THEN << << <<"limit">>, Itoa(o.limit) >> >> ELSE <<>>))

\* a URL: whether one was built, its path and its raw query
URL(path, query) == [ok |-> TRUE, path |-> path, query |-> query]
NoURL == [ok |-> FALSE, path |-> Empty, query |-> Empty]

\* the URL of GetAdmin, RemoveAdmin and UpdateAdmin
AdminURL(id) ==
    URL(ResolveReference(endpoint,
            PathJoin(<<adminURLPrefix, <<"admins">>, id>>)), Empty)

\* the URL of GetAdminsPaginate
AdminsPageURL(o) ==
    URL(ResolveReference(endpoint, <<"/", "admin", "/", "admins">>),
        rawQuery(o))

\* the URL of CreateAdmin
CreateAdminURL ==
    URL(ResolveReference(endpoint, <<"/", "admin", "/", "admins">>), Empty)

\* a GetProvisioner URL whose switch has no default case
GetProvisionerURLNoDefault(o) ==
    IF Len(o.id) > 0
      THEN URL(ResolveReference(endpoint,
                   <<"/", "admin", "/", "provisioners", "/", "id">>),
               provRawQuery(o))
      ELSE URL(ResolveReference(endpoint,
                   PathJoin(<<adminURLPrefix, <<"provisioners">>, o.name>>)),
               Empty)

\* a GetProvisioner URL whose switch tests the name first
GetProvisionerURLNameFirst(o) ==
    IF Len(o.name) > 0
      THEN URL(ResolveReference(endpoint,
                   PathJoin(<<adminURLPrefix, <<"provisioners">>, o.name>>)),
               Empty)
    ELSE IF Len(o.id) > 0
      THEN URL(ResolveReference(endpoint,
                   <<"/", "admin", "/", "provisioners", "/", "id">>),
               provRawQuery(o))
    ELSE NoURL

\* the URL of GetProvisioner: by id, else by name, else none
GetProvisionerURL(o) ==
    IF Len(o.id) > 0
      THEN URL(ResolveReference(endpoint,
                   <<"/", "admin", "/", "provisioners", "/", "id">>),
               provRawQuery(o))
    ELSE IF Len(o.name) > 0
      THEN URL(ResolveReference(endpoint,
                   PathJoin(<<adminURLPrefix, <<"provisioners">>, o.name>>)),
               Empty)
    ELSE NoURL

\* the URL of RemoveProvisioner: by id, else by name, else none
RemoveProvisionerURL(o) ==
    IF Len(o.id) > 0
      THEN URL(ResolveReference(endpoint,
                   PathJoin(<<adminURLPrefix,
                              <<"provisioners", "/", "id">> >>)),
               provRawQuery(o))
    ELSE IF Len(o.name) > 0
      THEN URL(ResolveReference(endpoint,
                   PathJoin(<<adminURLPrefix, <<"provisioners">>, o.name>>)),
               Empty)
    ELSE NoURL

\* the URL of GetProvisionersPaginate
ProvisionersPageURL(o) ==
    URL(ResolveReference(endpoint, <<"/", "admin", "/", "provisioners">>),
        provRawQuery(o))

\* the URL of CreateProvisioner
CreateProvisionerURL ==
    URL(ResolveReference(endpoint,
            PathJoin(<<adminURLPrefix, <<"provisioners">> >>)), Empty)

\* the URL of UpdateProvisioner
UpdateProvisionerURL(name) ==
    URL(ResolveReference(endpoint,
            PathJoin(<<adminURLPrefix, <<"provisioners">>, name>>)), Empty)

\* token.DefaultValidity, in minutes
DefaultValidity == 5

\* what can fail in an operation before its first send: applying the
\* options, marshalling the body, drawing the random identifier of the token,
\* signing the token, building the request
OptionFaults == {"none", "options", "random", "sign", "request"}
BodyFaults == {"none", "marshal", "random", "sign", "request"}
MintFaults == {"none", "random", "sign", "request"}
GetFaults == {"none", "request"}

\* a token whose identifier is not drawn anew
generateAdminTokenSameId(p, c, urlPath, f) ==
    [kind |-> "ok",
     tok |-> [jti |-> <<p, c.n, 1>>, aud |-> urlPath,
              nbf |-> now, exp |-> now + DefaultValidity]]

\* generateAdminToken: with f = "random" the identifier cannot be drawn and
\* with f = "sign" the token cannot be built or signed, which are errors;
\* without a key, reading its KeyID is a nil dereference.  Else the token has
\* a new random identifier (never drawn before: the process, its call and
\* the number of the mint), the path as its audience and a validity of
\* DefaultValidity from now.
generateAdminToken(p, c, urlPath, f) ==
    IF f = "random" THEN [kind |-> "err", tok |-> NoToken]
    ELSE IF x5cJWK = "nil" THEN [kind |-> "panic", tok |-> NoToken]
    ELSE IF f = "sign" THEN [kind |-> "err", tok |-> NoToken]
    ELSE [kind |-> "ok",
          tok |-> [jti |-> <<p, c.n, c.minted + 1>>, aud |-> urlPath,
                   nbf |-> now, exp |-> now + DefaultValidity]]

(***************************************************************************)
(* The operations up to their first send.                                  *)
(***************************************************************************)
CanStart(p) == call[p].pc = "idle" /\ call[p].n < MaxCalls

\* the logical call has returned and its local state is gone
Returned(p) ==
    /\ call[p].pc = "done"
    /\ call' = [call EXCEPT ![p] = [IdleCall EXCEPT !.n = call[p].n]]
    /\ UNCHANGED <<endpoint, retryFunc, x5cJWK, transport, now, mock>>

\* the local state of a new logical call of api
NewCall(c, api) ==
    [IdleCall EXCEPT !.n = c.n + 1, !.api = api, !.tr0 = transport]

\* a request built without a new retry state
PrepareKeepRetried(c, op, method, u, tok, body) ==
    [c EXCEPT !.pc = "send", !.op = op,
              !.req = [method |-> method, path |-> u.path, query |-> u.query,
                       auth |-> tok, body |-> body],
              !.reader = body, !.tr = NoTr, !.resp = NoResp, !.sent = 0, !.asked = 0,
              !.swaps = 0, !.rebuilt = "no", !.statuses = <<>>,
              !.ret = NoOut]

\* the request is built and the operation stands at its retry label
Prepare(c, op, method, u, tok, body) ==
    [c EXCEPT !.pc = "send", !.op = op, !.retried = FALSE,
              !.req = [method |-> method, path |-> u.path, query |-> u.query,
                       auth |-> tok, body |-> body],
              !.reader = body, !.tr = NoTr, !.resp = NoResp, !.sent = 0, !.asked = 0,
              !.swaps = 0, !.rebuilt = "no", !.statuses = <<>>,
              !.ret = NoOut]

\* the operation returns r: to its caller, or to the aggregation's loop
Return(c, r) ==
    IF c.api \in Aggs
      THEN [c EXCEPT !.pc = "page", !.ret = r]
      ELSE [c EXCEPT !.pc = "done", !.ret = r, !.out = r]

\* the operation op is entered: it has sent and received nothing
Entered(c, op) ==
    [c EXCEPT !.op = op, !.retried = FALSE, !.req = NoReq,
              !.reader = NoBody, !.tr = NoTr,
              !.resp = NoResp, !.sent = 0, !.asked = 0, !.swaps = 0,
              !.rebuilt = "no", !.statuses = <<>>, !.ret = NoOut]

\* an error that is returned after the request was sent
FailAfterSend(p, c, e) ==
    /\ call' = [call EXCEPT ![p] =
                   Return([c EXCEPT !.sent = 1,
                                    !.wire = Append(c.wire,
                                        [req |-> NoReq, tr |-> transport,
                                         fetch |-> c.fetches])],
                          OutErr(e, Empty))]
    /\ UNCHANGED <<endpoint, retryFunc, x5cJWK, transport, now, mock>>

\* the operation returns the error e before its first send
Fail(p, c, e) ==
    /\ call' = [call EXCEPT ![p] = Return(c, OutErr(e, Empty))]
    /\ UNCHANGED <<endpoint, retryFunc, x5cJWK, transport, now, mock>>

\* the goroutine of the call panics: nothing is returned
Crash(p, c) ==
    /\ call' = [call EXCEPT ![p] =
                   [c EXCEPT !.pc = "panic", !.ret = NoOut,
                             !.out = [NoOut EXCEPT !.kind = "panic"]]]
    /\ UNCHANGED <<endpoint, retryFunc, x5cJWK, transport, now, mock>>

\* the token is minted for the path of the URL, the request is built and
\* the token added to it
WithToken(p, c, op, method, u, body, f) ==
    LET t == generateAdminToken(p, c, u.path, f)
        d == Entered(c, op)
    IN IF t.kind = "panic" THEN Crash(p, d)
       ELSE IF t.kind = "err" THEN Fail(p, d, "credential")
       ELSE IF f = "request" THEN Fail(p, d, "request")
       ELSE /\ call' = [call EXCEPT ![p] =
                   Prepare([c EXCEPT !.minted = c.minted + 1], op, method, u,
                           t.tok, body)]
            /\ UNCHANGED <<endpoint, retryFunc, x5cJWK, transport, now, mock>>

GetAdmin(p, id, f) ==
    /\ CanStart(p)
    /\ LET c == NewCall(call[p], "GetAdmin")
       IN IF f = "request"
            THEN Fail(p, Entered(c, "GetAdmin"), "request")
            ELSE /\ call' = [call EXCEPT ![p] =
                        Prepare(c, "GetAdmin", "GET", AdminURL(id), NoToken,
                                NoBody)]
                 /\ UNCHANGED <<endpoint, retryFunc, x5cJWK, transport, now, mock>>

GetAdminsPaginate(p, o, f) ==
    /\ CanStart(p)
    /\ LET c == NewCall(call[p], "GetAdminsPaginate")
       IN IF f = "options"
            THEN Fail(p, Entered(c, "GetAdminsPaginate"), "options")
            ELSE WithToken(p, c, "GetAdminsPaginate", "GET",
                           AdminsPageURL(o), NoBody, f)

CreateAdmin(p, body, f) ==
    /\ CanStart(p)
    /\ LET c == NewCall(call[p], "CreateAdmin")
       IN IF f = "marshal"
            THEN Fail(p, Entered(c, "CreateAdmin"), "marshal")
            ELSE WithToken(p, c, "CreateAdmin", "POST", CreateAdminURL,
                           body, f)

RemoveAdmin(p, id, f) ==
    /\ CanStart(p)
    /\ WithToken(p, NewCall(call[p], "RemoveAdmin"), "RemoveAdmin", "DELETE",
                 AdminURL(id), NoBody, f)

UpdateAdmin(p, id, body, f) ==
    /\ CanStart(p)
    /\ LET c == NewCall(call[p], "UpdateAdmin")
       IN IF f = "marshal"
            THEN Fail(p, Entered(c, "UpdateAdmin"), "marshal")
            ELSE WithToken(p, c, "UpdateAdmin", "PATCH", AdminURL(id),
                           body, f)

\* without a URL the operation fails before it mints a token
ConfigError(p, c) ==
    /\ call' = [call EXCEPT ![p] = Return(c, OutErr("config", Empty))]
    /\ UNCHANGED <<endpoint, retryFunc, x5cJWK, transport, now, mock>>

\* the selector options of a call of GetProvisioner or RemoveProvisioner
Selecting(c, o) == [c EXCEPT !.opts = [id |-> o.id, name |-> o.name]]

GetProvisioner(p, o, f) ==
    /\ CanStart(p)
    /\ LET u == GetProvisionerURL(o)
           c == Selecting(NewCall(call[p], "GetProvisioner"), o)
       IN IF f = "options"
            THEN Fail(p, Entered(NewCall(call[p], "GetProvisioner"),
                                 "GetProvisioner"), "options")
          ELSE IF u.ok
            THEN WithToken(p, c, "GetProvisioner", "GET", u, NoBody, f)
            ELSE ConfigError(p, c)

GetProvisionersPaginate(p, o, f) ==
    /\ CanStart(p)
    /\ LET c == NewCall(call[p], "GetProvisionersPaginate")
       IN IF f = "options"
            THEN Fail(p, Entered(c, "GetProvisionersPaginate"), "options")
            ELSE WithToken(p, c, "GetProvisionersPaginate", "GET",
                           ProvisionersPageURL(o), NoBody, f)

RemoveProvisioner(p, o, f) ==
    /\ CanStart(p)
    /\ LET u == RemoveProvisionerURL(o)
           c == Selecting(NewCall(call[p], "RemoveProvisioner"), o)
       IN IF f = "options"
            THEN Fail(p, Entered(NewCall(call[p], "RemoveProvisioner"),
                                 "RemoveProvisioner"), "options")
          ELSE IF u.ok
            THEN WithToken(p, c, "RemoveProvisioner", "DELETE", u, NoBody, f)
            ELSE ConfigError(p, c)

CreateProvisioner(p, body, f) ==
    /\ CanStart(p)
    /\ LET c == NewCall(call[p], "CreateProvisioner")
       IN IF f = "marshal"
            THEN Fail(p, Entered(c, "CreateProvisioner"), "marshal")
            ELSE WithToken(p, c, "CreateProvisioner", "POST",
                           CreateProvisionerURL, body, f)

UpdateProvisioner(p, name, body, f) ==
    /\ CanStart(p)
    /\ LET c == NewCall(call[p], "UpdateProvisioner")
       IN IF f = "marshal"
            THEN Fail(p, Entered(c, "UpdateProvisioner"), "marshal")
            ELSE WithToken(p, c, "UpdateProvisioner", "PUT",
                           UpdateProvisionerURL(name), body, f)

(***************************************************************************)
(* The aggregations.                                                       *)
(***************************************************************************)
\* the page fetch of GetAdmins: GetAdminsPaginate with the cursor and the
\* page size 100
FetchAdmins(p, c, f) ==
    WithToken(p, [c EXCEPT !.fetches = c.fetches + 1], "GetAdminsPaginate",
              "GET",
              AdminsPageURL([cursor |-> c.cursor, limit |-> PageLimit]),
              NoBody, f)

\* the page fetch of GetProvisioners
FetchProvisioners(p, c, f) ==
    WithToken(p, [c EXCEPT !.fetches = c.fetches + 1],
              "GetProvisionersPaginate", "GET",
              ProvisionersPageURL([cursor |-> c.cursor, limit |-> PageLimit,
                                   id |-> Empty, name |-> Empty]),
              NoBody, f)

\* the options the caller passed to the aggregation
Given(c, o) == [c EXCEPT !.given = o]

\* a GetAdmins that begins at the caller's cursor
GetAdminsFromCursor(p, o, f) ==
    /\ CanStart(p)
    /\ FetchAdmins(p, [Given(NewCall(call[p], "GetAdmins"), o)
                         EXCEPT !.cursor = o.cursor], f)

\* GetAdmins up to its first page fetch; the caller's options o are not read
GetAdmins(p, o, f) ==
    /\ CanStart(p)
    /\ FetchAdmins(p, Given(NewCall(call[p], "GetAdmins"), o), f)

\* GetProvisioners up to its first page fetch
GetProvisioners(p, o, f) ==
    /\ CanStart(p)
    /\ FetchProvisioners(p, Given(NewCall(call[p], "GetProvisioners"), o), f)

\* an error returned together with the items gathered so far
AggregatePartial(c) ==
    [OutErr(c.ret.err, c.ret.msg) EXCEPT !.isNil = FALSE, !.val = c.acc]

\* return nil, err: the page's error and no items
AggregateError(c) == OutErr(c.ret.err, c.ret.msg)

\* the page put before the items gathered so far
PrependPage(acc, items) == items \o acc

\* append(admins, resp.Admins...)
AppendPage(acc, items) == acc \o items

\* a cursor that stays what it was
StaleCursor(c) == c.cursor

\* the cursor of the next page fetch
AdvanceCursor(c) == c.ret.next

\* a loop that stops after its first page
LastPageAlways(c) == TRUE

\* resp.NextCursor == "": the page is the last one
LastPage(c) == c.ret.next = Empty

\* the loop body after a page fetch returned: stop on its error, else append
\* its items and stop on an empty next-cursor, else fetch the next page (f:
\* what fails in it before its send)
NextPage(p, f) ==
    LET c == call[p] IN
    /\ c.pc = "page"
    /\ IF c.ret.kind = "err"
         THEN /\ call' = [call EXCEPT ![p] =
                    [c EXCEPT !.pc = "done", !.out = AggregateError(c)]]
              /\ UNCHANGED <<endpoint, retryFunc, x5cJWK, transport, now, mock>>
         ELSE LET d == [c EXCEPT !.acc = AppendPage(c.acc, c.ret.val)]
              IN IF LastPage(c)
                   THEN /\ call' = [call EXCEPT ![p] =
                               [d EXCEPT !.pc = "done", !.out = OutOk(d.acc)]]
                        /\ UNCHANGED <<endpoint, retryFunc, x5cJWK, transport, now, mock>>
                   ELSE LET e == [d EXCEPT !.cursor = AdvanceCursor(c)]
                        IN IF c.api = "GetAdmins"
                             THEN FetchAdmins(p, e, f)
                             ELSE FetchProvisioners(p, e, f)

(***************************************************************************)
(* Sending, the retry decision and the response.                           *)
(***************************************************************************)
\* the handle a dispatch captures: the current one, read in one step
CurrentTransport == transport

\* uaClient.SetTransport: the current handle is replaced in one step
SetTransport(h) == transport' = h

\* a dispatch on the handle that was current when the call began
DoStale(p) ==
    LET c == call[p] IN
    /\ c.pc = "send"
    /\ call' = [call EXCEPT ![p] =
                   [c EXCEPT !.pc = "wait", !.tr = c.tr0,
                             !.sent = c.sent + 1,
                             !.reader = NoBody,
                             !.wire = Append(c.wire,
                                 [req |-> [c.req EXCEPT !.body = c.reader],
                                  tr |-> c.tr0,
                                  fetch |-> c.fetches])]]
    /\ UNCHANGED <<endpoint, retryFunc, x5cJWK, transport, now, mock>>

\* client.Do (client.Get in GetAdmin) dispatches the request on the current
\* transport handle; the body it transmits is what is left to read of the
\* reader of req, which it reads to its end
Do(p) ==
    LET c == call[p] IN
    /\ c.pc = "send"
    /\ call' = [call EXCEPT ![p] =
                   [c EXCEPT !.pc = "wait", !.tr = CurrentTransport,
                             !.sent = c.sent + 1,
                             !.reader = NoBody,
                             !.wire = Append(c.wire,
                                 [req |-> [c.req EXCEPT !.body = c.reader],
                                  tr |-> CurrentTransport,
                                  fetch |-> c.fetches])]]
    /\ UNCHANGED <<endpoint, retryFunc, x5cJWK, transport, now, mock>>

\* a failed send that is tried again on a new transport
RecvErrorResend(p) ==
    LET c == call[p] IN
    /\ c.pc = "wait"
    /\ IF ~c.retried
         THEN /\ call' = [call EXCEPT ![p] =
                     [c EXCEPT !.pc = "send", !.retried = TRUE,
                               !.swaps = c.swaps + 1]]
              /\ transport' = transport + 1
         ELSE /\ call' = [call EXCEPT ![p] =
                     Return(c, OutErr("transport", Empty))]
              /\ UNCHANGED transport
    /\ UNCHANGED <<endpoint, retryFunc, x5cJWK, now, mock>>

\* a failed send after which the handle of before the call is put back
RecvErrorRollsBack(p) ==
    LET c == call[p] IN
    /\ c.pc = "wait"
    /\ call' = [call EXCEPT ![p] = Return(c, OutErr("transport", Empty))]
    /\ transport' = IF c.retried THEN c.tr0 ELSE transport
    /\ UNCHANGED <<endpoint, retryFunc, x5cJWK, now, mock>>

\* the send fails without a response and the operation returns the error
RecvError(p) ==
    LET c == call[p] IN
    /\ c.pc = "wait"
    /\ call' = [call EXCEPT ![p] = Return(c, OutErr("transport", Empty))]
    /\ UNCHANGED <<endpoint, retryFunc, x5cJWK, transport, now, mock>>

\* the items of the page the server returns to page fetch k: none or two
PageItems(k) == {<<>>, <<10 * k + 1, 10 * k + 2>>}

\* what the server may answer to the request in flight
ServerResponses(c) ==
    {[status |-> st, good |-> TRUE, msg |-> m, items |-> <<>>,
      next |-> Empty] : st \in {x \in Statuses : x >= 400}, m \in Msgs}
    \cup
    {[status |-> st, good |-> FALSE, msg |-> Empty, items |-> <<>>,
      next |-> Empty] : st \in Statuses}
    \cup
    (IF c.op \in PageOps
       THEN {[status |-> st, good |-> TRUE, msg |-> Empty, items |-> it,
              next |-> nx] :
                st \in {x \in Statuses : x < 400},
                it \in PageItems(c.fetches),
                nx \in (IF c.fetches > MaxPages THEN {Empty} ELSE Cursors)}
       ELSE {[status |-> st, good |-> TRUE, msg |-> Empty, items |-> <<1>>,
              next |-> Empty] : st \in {x \in Statuses : x < 400}})

\* a retryOnError that does not ask the predicate about the status
retryOnErrorAnyStatus(st, rebuildOk) ==
    IF retryFunc # NoFunc
      THEN IF rebuildOk
             THEN [retry |-> TRUE, asked |-> 1, rebuilt |-> "ok"]
             ELSE [retry |-> FALSE, asked |-> 1, rebuilt |-> "failed"]
      ELSE [retry |-> FALSE, asked |-> 0, rebuilt |-> "no"]

\* a retryOnError that signals the retry although the rebuild failed
retryOnErrorDespiteRebuild(st, rebuildOk) ==
    IF retryFunc # NoFunc
      THEN IF st \in retryFunc
             THEN [retry |-> TRUE, asked |-> 1,
                   rebuilt |-> IF rebuildOk THEN "ok" ELSE "failed"]
             ELSE [retry |-> FALSE, asked |-> 1, rebuilt |-> "no"]
      ELSE [retry |-> FALSE, asked |-> 0, rebuilt |-> "no"]

\* retryOnError on a response with status st; rebuildOk: whether applying
\* the options and resolving the transport succeed
retryOnError(st, rebuildOk) ==
    IF retryFunc # NoFunc
      THEN IF st \in retryFunc
             THEN IF rebuildOk
                    THEN [retry |-> TRUE, asked |-> 1, rebuilt |-> "ok"]
                    ELSE [retry |-> FALSE, asked |-> 1, rebuilt |-> "failed"]
             ELSE [retry |-> FALSE, asked |-> 1, rebuilt |-> "no"]
      ELSE [retry |-> FALSE, asked |-> 0, rebuilt |-> "no"]

\* a retry decision on a retried flag that the calls share
RetryDecisionShared(c, st, rebuildOk) ==
    IF \A q \in Procs : ~call[q].retried
      THEN retryOnError(st, rebuildOk)
      ELSE [retry |-> FALSE, asked |-> 0, rebuilt |-> c.rebuilt]

\* a retry decision that does not look at retried
RetryDecisionAgain(c, st, rebuildOk) == retryOnError(st, rebuildOk)

\* !retried && c.retryOnError(resp)
RetryDecision(c, st, rebuildOk) ==
    IF ~c.retried
      THEN retryOnError(st, rebuildOk)
      ELSE [retry |-> FALSE, asked |-> 0, rebuilt |-> c.rebuilt]

\* an error that does not carry the message of the body
readAdminErrorNoMessage(r) ==
    IF r.good THEN OutErr("server", Empty) ELSE OutErr("errdecode", Empty)

\* readAdminError: the message of the decoded error body, or the decoding
\* error
readAdminError(r) ==
    IF r.good THEN OutErr("server", r.msg) ELSE OutErr("errdecode", Empty)

\* a decoding whose failure gives an empty resource and no error
readBodySwallowed(op, r) ==
    IF op \in PageOps
      THEN OutPage(IF r.good THEN r.items ELSE <<>>, r.next)
      ELSE OutOk(IF r.good THEN r.items ELSE <<>>)

\* readProtoJSON and readJSON: the decoded body, or the decoding error
readBody(op, r) ==
    IF ~r.good THEN OutErr("decode", Empty)
    ELSE IF op \in PageOps THEN OutPage(r.items, r.next)
    ELSE OutOk(r.items)

\* whether the operation closes the body of a response with status < 400
ClosesOnSuccess(op) == op \in ProtoOps \cup PageOps

\* a response after which the handle is rebuilt and swapped for every status
\* >= 400 of a client with a predicate, whether the operation retries or not
ReceiveSwapsUnasked(p, r, rebuildOk) ==
    LET c == call[p]
        att == c.sent
        got == [c EXCEPT !.resp = r, !.open = c.open \cup {att},
                         !.statuses = Append(c.statuses, r.status),
                         !.pages = IF c.api \in Aggs /\ r.status < 400
                                      /\ r.good
                                     THEN Append(c.pages,
                                            [items |-> r.items,
                                             next |-> r.next])
                                     ELSE c.pages]
        dec == RetryDecision(c, r.status, rebuildOk)
        seen == [got EXCEPT !.asked = c.asked + dec.asked,
                            !.rebuilt = dec.rebuilt]
    IN
    /\ c.pc = "wait"
    /\ IF r.status >= 400
         THEN IF dec.retry
                THEN /\ call' = [call EXCEPT ![p] =
                            [seen EXCEPT !.retried = TRUE, !.pc = "send",
                                         !.open = got.open \ {att},
                                         !.swaps = c.swaps + 1]]
                     /\ SetTransport(transport + 1)
                ELSE /\ call' = [call EXCEPT ![p] =
                            Return([seen EXCEPT !.open = got.open \ {att}],
                                   readAdminError(r))]
                     /\ IF retryFunc # NoFunc /\ rebuildOk
                          THEN SetTransport(transport + 1)
                          ELSE UNCHANGED transport
         ELSE /\ call' = [call EXCEPT ![p] =
                     IF c.op \in BodylessOps
                       THEN Return(got, OutNil)
                       ELSE Return([got EXCEPT !.open =
                                       IF ClosesOnSuccess(c.op)
                                         THEN got.open \ {att} ELSE got.open],
                                   readBody(c.op, r))]
              /\ UNCHANGED transport
    /\ UNCHANGED <<endpoint, retryFunc, x5cJWK, now, mock>>

\* the response r arrives (an aggregation's page is noted as the server
\* returned it) and the operation runs to its return or back to
\* its retry label
Receive(p, r, rebuildOk) ==
    LET c == call[p]
        att == c.sent
        got == [c EXCEPT !.resp = r, !.open = c.open \cup {att},
                         !.statuses = Append(c.statuses, r.status),
                         !.pages = IF c.api \in Aggs /\ r.status < 400
                                      /\ r.good
                                     THEN Append(c.pages,
                                            [items |-> r.items,
                                             next |-> r.next])
                                     ELSE c.pages]
        dec == RetryDecision(c, r.status, rebuildOk)
        seen == [got EXCEPT !.asked = c.asked + dec.asked,
                            !.rebuilt = dec.rebuilt]
    IN
    /\ c.pc = "wait"
    /\ IF r.status >= 400
         THEN IF dec.retry
                THEN /\ call' = [call EXCEPT ![p] =
                            [seen EXCEPT !.retried = TRUE, !.pc = "send",
                                         !.open = got.open \ {att},
                                         !.swaps = c.swaps + 1]]
                     /\ SetTransport(transport + 1)
                ELSE /\ call' = [call EXCEPT ![p] =
                            Return([seen EXCEPT !.open = got.open \ {att}],
                                   readAdminError(r))]
                     /\ UNCHANGED transport
         ELSE /\ call' = [call EXCEPT ![p] =
                     IF c.op \in BodylessOps
                       THEN Return(got, OutNil)
                       ELSE Return([got EXCEPT !.open =
                                       IF ClosesOnSuccess(c.op)
                                         THEN got.open \ {att} ELSE got.open],
                                   readBody(c.op, r))]
              /\ UNCHANGED transport
    /\ UNCHANGED <<endpoint, retryFunc, x5cJWK, now, mock>>

(***************************************************************************)
(* The specification: one process makes its calls one after the other.     *)
(***************************************************************************)
Step(p) ==
    \/ \E id \in Ids, f \in GetFaults : GetAdmin(p, id, f)
    \/ \E o \in AdminOpts, f \in OptionFaults : GetAdminsPaginate(p, o, f)
    \/ \E b \in Payloads, f \in BodyFaults : CreateAdmin(p, b, f)
    \/ \E id \in Ids, f \in MintFaults : RemoveAdmin(p, id, f)
    \/ \E id \in Ids, b \in Payloads, f \in BodyFaults :
           UpdateAdmin(p, id, b, f)
    \/ \E o \in SelectorOpts, f \in OptionFaults : GetProvisioner(p, o, f)
    \/ \E o \in ListOpts, f \in OptionFaults :
           GetProvisionersPaginate(p, o, f)
    \/ \E o \in SelectorOpts, f \in OptionFaults : RemoveProvisioner(p, o, f)
    \/ \E b \in Payloads, f \in BodyFaults : CreateProvisioner(p, b, f)
    \/ \E nm \in Names, b \in Payloads, f \in BodyFaults :
           UpdateProvisioner(p, nm, b, f)
    \/ Do(p)
    \/ RecvError(p)
    \/ \E r \in ServerResponses(call[p]), ok \in BOOLEAN : Receive(p, r, ok)
    \/ Returned(p)

Next == \E p \in {"p1"} : Step(p)

Spec == Init /\ [][Next]_vars

(***************************************************************************)
(* The specification of one aggregation: the process calls GetAdmins or    *)
(* GetProvisioners once.                                                   *)
(***************************************************************************)
\* the options of the caller of these aggregations: a cursor and a page size
CallerOpts == {[cursor |-> <<"c1">>, limit |-> 25]}

PagesStep(p) ==
    \/ \E o \in CallerOpts, f \in MintFaults : GetAdmins(p, o, f)
    \/ \E o \in CallerOpts, f \in MintFaults : GetProvisioners(p, o, f)
    \/ Do(p)
    \/ RecvError(p)
    \/ \E r \in ServerResponses(call[p]), ok \in BOOLEAN : Receive(p, r, ok)
    \/ \E f \in MintFaults : NextPage(p, f)

PagesNext == \E p \in {"p1"} : PagesStep(p)

SpecPages == Init /\ [][PagesNext]_vars


(***************************************************************************)
(* The specification of the tokens: time passes while one process makes    *)
(* its calls, aggregations among them, on a client with a key and the      *)
(* predicate that accepts 401, against a server that answers with a        *)
(* resource, a page without items or the error message m1, without         *)
(* pre-flight faults.                                                      *)
(***************************************************************************)
\* a minute passes
Tick ==
    /\ now < MaxTime
    /\ now' = now + 1
    /\ UNCHANGED <<endpoint, retryFunc, x5cJWK, transport, call, mock>>

\* the answers of the server of this specification
MintResponses(c) ==
    {r \in ServerResponses(c) :
        /\ r.good
        /\ r.status # 500
        /\ r.msg # <<"m2">>
        /\ r.items \in {<<>>, <<1>>}
        /\ r.next # <<"c2", "&">>}

MintStep(p) ==
    \/ \E id \in Ids : GetAdmin(p, id, "none")
    \/ \E o \in AdminOpts : GetAdminsPaginate(p, o, "none")
    \/ \E b \in Payloads : CreateAdmin(p, b, "none")
    \/ \E id \in Ids : RemoveAdmin(p, id, "none")
    \/ \E id \in Ids, b \in Payloads : UpdateAdmin(p, id, b, "none")
    \/ \E o \in SelectorOpts : GetProvisioner(p, o, "none")
    \/ \E o \in ListOpts : GetProvisionersPaginate(p, o, "none")
    \/ \E o \in SelectorOpts : RemoveProvisioner(p, o, "none")
    \/ \E b \in Payloads : CreateProvisioner(p, b, "none")
    \/ \E nm \in Names, b \in Payloads : UpdateProvisioner(p, nm, b, "none")
    \/ \E o \in CallerOpts : GetAdmins(p, o, "none")
    \/ \E o \in CallerOpts : GetProvisioners(p, o, "none")
    \/ Do(p)
    \/ RecvError(p)
    \/ \E r \in MintResponses(call[p]) : Receive(p, r, TRUE)
    \/ NextPage(p, "none")
    \/ Returned(p)

MintNext == Tick \/ \E p \in {"p1"} : MintStep(p)

MintInit == Init /\ retryFunc = {401} /\ x5cJWK = "key"

SpecMint == MintInit /\ [][MintNext]_vars

(***************************************************************************)
(* The specification of a running aggregation: the process calls GetAdmins *)
(* or GetProvisioners once on a client with a key and the predicate that   *)
(* accepts 401, against a server that answers with a page or the error     *)
(* message m1, without pre-flight faults; the client keeps running and     *)
(* every request is answered or fails.                                     *)
(***************************************************************************)
LoopStep(p) ==
    \/ \E o \in CallerOpts : GetAdmins(p, o, "none")
    \/ \E o \in CallerOpts : GetProvisioners(p, o, "none")
    \/ Do(p)
    \/ RecvError(p)
    \/ \E r \in MintResponses(call[p]), ok \in BOOLEAN : Receive(p, r, ok)
    \/ NextPage(p, "none")

LoopNext == \E p \in {"p1"} : LoopStep(p)

SpecLoop == MintInit /\ [][LoopNext]_vars /\ WF_vars(LoopNext)

(***************************************************************************)
(* The specification of the caller's options: the process calls GetAdmins  *)
(* or GetProvisioners once, with any cursor and page size, on the client   *)
(* and against the server of the running aggregation.                      *)
(***************************************************************************)
OptsStep(p) ==
    \/ \E o \in AdminOpts : GetAdmins(p, o, "none")
    \/ \E o \in AdminOpts : GetProvisioners(p, o, "none")
    \/ Do(p)
    \/ RecvError(p)
    \/ \E r \in MintResponses(call[p]), ok \in BOOLEAN : Receive(p, r, ok)
    \/ NextPage(p, "none")

OptsNext == \E p \in {"p1"} : OptsStep(p)

SpecOpts == MintInit /\ [][OptsNext]_vars

(***************************************************************************)
(* The specification of concurrent calls: two processes call CreateAdmin   *)
(* and UpdateProvisioner on one client with a key and an endpoint without  *)
(* a path, against a server that                                           *)
(* answers with a resource or the error message m1, without pre-flight     *)
(* faults.                                                                 *)
(***************************************************************************)
\* the answers of the server of this specification
ConcResponses(c) ==
    {r \in ServerResponses(c) : r.good /\ r.msg # <<"m2">>}

ConcStep(p) ==
    \/ \E b \in Payloads : CreateAdmin(p, b, "none")
    \/ \E nm \in Names, b \in Payloads : UpdateProvisioner(p, nm, b, "none")
    \/ Do(p)
    \/ RecvError(p)
    \/ \E r \in ConcResponses(call[p]), ok \in BOOLEAN : Receive(p, r, ok)
    \/ Returned(p)

ConcNext == \E p \in Procs : ConcStep(p)

ConcInit ==
    /\ Init
    /\ x5cJWK = "key"
    /\ endpoint = Empty
    /\ retryFunc \in {NoFunc, {401}, {401, 500}}

SpecConc == ConcInit /\ [][ConcNext]_vars

(***************************************************************************)
(* MockDB: every method looks at its own function, then at MockError, then *)
(* at MockRet1.                                                            *)
(***************************************************************************)
\* a method returned val and err
MockReturn(val, err) ==
    [method |-> "none", kind |-> "ret", val |-> val, err |-> err]

\* a method did not return: the type assertion on MockRet1 panicked
MockPanic == [method |-> "none", kind |-> "panic", val |-> "none",
              err |-> "nil"]

\* m.MockRet1.(T): the value of MockRet1 when it holds a T, a panic when it
\* is nil or holds a value of another type
TypeAssert(t, err) ==
    IF mockDB.MockRet1.type = t
      THEN MockReturn(mockDB.MockRet1.val, err)
      ELSE MockPanic

\* the body of a method that returns an error only
ErrorOnly(m) ==
    IF m \in mockDB.fns THEN MockReturn("none", mockDB.fnOut.err)
    ELSE IF mockDB.MockError # "nil"
      THEN MockReturn("none", mockDB.MockError)
    ELSE MockReturn("none", mockDB.MockError)

\* the body of a method that returns a value of type t and an error
ValueOrError(m, t) ==
    IF m \in mockDB.fns THEN MockReturn(mockDB.fnOut.val, mockDB.fnOut.err)
    ELSE IF mockDB.MockError # "nil"
      THEN MockReturn(Zero(t), mockDB.MockError)
    ELSE TypeAssert(t, mockDB.MockError)

\* the method m is called and ends as out
MockCall(m, out) ==
    /\ dbCall' = [out EXCEPT !.method = m]
    /\ UNCHANGED <<endpoint, retryFunc, x5cJWK, transport, now, call, mockDB>>

CreateAccount == MockCall("CreateAccount", ErrorOnly("CreateAccount"))

GetAccount ==
    MockCall("GetAccount", ValueOrError("GetAccount", ResultType.GetAccount))

GetAccountByKeyID ==
    MockCall("GetAccountByKeyID", ValueOrError("GetAccountByKeyID", ResultType.GetAccountByKeyID))

UpdateAccount == MockCall("UpdateAccount", ErrorOnly("UpdateAccount"))

CreateNonce ==
    MockCall("CreateNonce", ValueOrError("CreateNonce", ResultType.CreateNonce))

DeleteNonce == MockCall("DeleteNonce", ErrorOnly("DeleteNonce"))

CreateAuthorization == MockCall("CreateAuthorization", ErrorOnly("CreateAuthorization"))

GetAuthorization ==
    MockCall("GetAuthorization", ValueOrError("GetAuthorization", ResultType.GetAuthorization))

UpdateAuthorization == MockCall("UpdateAuthorization", ErrorOnly("UpdateAuthorization"))

\* GetAuthorizationsByAccountID returns nil, m.MockError on both paths
GetAuthorizationsByAccountID ==
    MockCall("GetAuthorizationsByAccountID",
        IF "GetAuthorizationsByAccountID" \in mockDB.fns
          THEN MockReturn(mockDB.fnOut.val, mockDB.fnOut.err)
        ELSE IF mockDB.MockError # "nil"
          THEN MockReturn("nil", mockDB.MockError)
        ELSE MockReturn("nil", mockDB.MockError))

CreateCertificate == MockCall("CreateCertificate", ErrorOnly("CreateCertificate"))

GetCertificate ==
    MockCall("GetCertificate", ValueOrError("GetCertificate", ResultType.GetCertificate))

GetCertificateBySerial ==
    MockCall("GetCertificateBySerial", ValueOrError("GetCertificateBySerial", ResultType.GetCertificateBySerial))

CreateChallenge == MockCall("CreateChallenge", ErrorOnly("CreateChallenge"))

GetChallenge ==
    MockCall("GetChallenge", ValueOrError("GetChallenge", ResultType.GetChallenge))

UpdateChallenge == MockCall("UpdateChallenge", ErrorOnly("UpdateChallenge"))

CreateOrder == MockCall("CreateOrder", ErrorOnly("CreateOrder"))

GetOrder ==
    MockCall("GetOrder", ValueOrError("GetOrder", ResultType.GetOrder))

UpdateOrder == MockCall("UpdateOrder", ErrorOnly("UpdateOrder"))

GetOrdersByAccountID ==
    MockCall("GetOrdersByAccountID", ValueOrError("GetOrdersByAccountID", ResultType.GetOrdersByAccountID))

(***************************************************************************)
(* The specification of the mock: a MockDB is configured and its methods   *)
(* are called.                                                             *)
(***************************************************************************)
MockNext ==
    \/ CreateAccount
    \/ GetAccount
    \/ GetAccountByKeyID
    \/ UpdateAccount
    \/ CreateNonce
    \/ DeleteNonce
    \/ CreateAuthorization
    \/ GetAuthorization
    \/ UpdateAuthorization
    \/ GetAuthorizationsByAccountID
    \/ CreateCertificate
    \/ GetCertificate
    \/ GetCertificateBySerial
    \/ CreateChallenge
    \/ GetChallenge
    \/ UpdateChallenge
    \/ CreateOrder
    \/ GetOrder
    \/ UpdateOrder
    \/ GetOrdersByAccountID

MockInit ==
    /\ endpoint = Empty
    /\ retryFunc = NoFunc
    /\ x5cJWK = "key"
    /\ transport = 0
    /\ now = 0
    /\ call = [p \in Procs |-> IdleCall]
    /\ mockDB \in MockDBs
    /\ dbCall = NoDBCall

SpecMock == MockInit /\ [][MockNext]_vars

(***************************************************************************)
(* What the server reads from a request: url.ParseQuery.                   *)
(***************************************************************************)
\* the index of the first sep of s, 0 when it has none
IndexOf(s, sep) ==
    IF \E i \in DOMAIN s : s[i] = sep
      THEN CHOOSE i \in DOMAIN s :
               s[i] = sep /\ \A j \in 1..(i - 1) : s[j] # sep
      ELSE 0

RECURSIVE SplitOn(_, _)
\* the pieces of s between the occurrences of sep
SplitOn(s, sep) ==
    LET k == IndexOf(s, sep)
    IN IF k = 0 THEN <<s>>
       ELSE <<SubSeq(s, 1, k - 1)>> \o SplitOn(SubSeq(s, k + 1, Len(s)), sep)

\* the character a %XY escape stands for
Unhex(a, b) ==
    CASE a = "2" /\ b = "6" -> "&"
      [] a = "3" /\ b = "D" -> "="
      [] a = "2" /\ b = "5" -> "%"
      [] a = "2" /\ b = "F" -> "/"
      [] a = "2" /\ b = "B" -> "+"
      [] OTHER -> "?"

RECURSIVE QueryUnescape(_)
QueryUnescape(s) ==
    IF s = <<>> THEN <<>>
    ELSE IF s[1] = "%" /\ Len(s) >= 3
      THEN <<Unhex(s[2], s[3])>> \o QueryUnescape(SubSeq(s, 4, Len(s)))
    ELSE IF s[1] = "+" THEN <<" ">> \o QueryUnescape(Tail(s))
    ELSE <<s[1]>> \o QueryUnescape(Tail(s))

\* the <<key, value>> pairs of a raw query
ParseQuery(q) ==
    IF q = <<>> THEN <<>>
    ELSE LET parts == SplitOn(q, "&")
         IN [i \in 1..Len(parts) |->
               LET kv == SplitOn(parts[i], "=")
               IN <<QueryUnescape(kv[1]),
                    QueryUnescape(JoinWith(Tail(kv), <<"=">>))>>]

\* url.Values.Get: the value of key, empty when the query has none
QueryGet(q, key) ==
    LET hits == SelectSeq(ParseQuery(q), LAMBDA kv : kv[1] = key)
    IN IF hits = <<>> THEN Empty ELSE hits[1][2]

\* the keys of a raw query
QueryKeys(q) == LET ps == ParseQuery(q) IN {ps[i][1] : i \in DOMAIN ps}

(***************************************************************************)
(* Properties.                                                             *)
(***************************************************************************)
\* the operation of process p has returned after receiving n responses
ReturnedAfter(c, n) ==
    /\ c.pc \in {"done", "page"}
    /\ c.op \in Ops
    /\ Len(c.statuses) = n

\* C1: an operation sends at most two requests and retries at most once; a
\* status >= 400 on the second attempt is returned as an error, and the retry
\* predicate, consulted for the first response at most, is not consulted for
\* it.
C1_AtMostOneRetry ==
    \A p \in Procs :
        LET c == call[p] IN
        /\ c.sent <= 2
        /\ c.asked <= 1
        /\ c.swaps <= 1
        /\ c.retried => c.sent >= 1
        /\ (c.sent = 2 => c.retried /\ c.pc # "send")
        /\ (ReturnedAfter(c, 2) /\ c.statuses[2] >= 400
              => /\ c.ret.kind = "err"
                 /\ c.ret.err \in {"server", "errdecode"}
                 /\ c.sent = 2
                 /\ c.asked = 1)

\* a second attempt that failed with a status the predicate accepts
C1_Witness ==
    \E p \in Procs :
        LET c == call[p] IN
        /\ ReturnedAfter(c, 2)
        /\ c.op = "CreateAdmin"
        /\ c.statuses[2] >= 400
        /\ retryFunc # NoFunc
        /\ c.statuses[2] \in retryFunc
        /\ c.ret.kind = "err"

\* the operation returned the error of its last response
ReturnsErrorOfResponse(c) ==
    /\ c.ret.kind = "err"
    /\ c.ret.isNil
    /\ IF c.resp.good
         THEN c.ret.err = "server" /\ c.ret.msg = c.resp.msg
         ELSE c.ret.err = "errdecode"

\* the failure of the second attempt, if it failed, is what was returned
SecondFailureReturned(c) ==
    /\ Len(c.statuses) = 1 => c.ret = OutErr("transport", Empty)
    /\ Len(c.statuses) = 2 /\ c.statuses[2] >= 400
         => ReturnsErrorOfResponse(c)

\* the operation returned and its first response had a status >= 400
FirstFailed(c) ==
    /\ c.pc \in {"done", "page"}
    /\ c.op \in Ops
    /\ c.statuses # <<>>
    /\ c.statuses[1] >= 400

\* the predicate is configured and accepts the first status
Accepted(c) == retryFunc # NoFunc /\ c.statuses[1] \in retryFunc

\* C2 as claimed: a first status >= 400 the predicate accepts gives exactly
\* one retry, with the second failure returned; any other first status >= 400
\* gives no retry and the first response's error.
C2_RetryIffAccepted ==
    \A p \in Procs :
        LET c == call[p] IN
        FirstFailed(c) =>
            IF Accepted(c)
              THEN c.sent = 2 /\ c.retried /\ SecondFailureReturned(c)
              ELSE c.sent = 1 /\ ~c.retried /\ ReturnsErrorOfResponse(c)

\* C2 (amended): a first status >= 400 the predicate accepts gives exactly
\* one retry when the transport is rebuilt, with the second failure returned;
\* when the predicate is nil or rejects the status, or the rebuild fails,
\* there is no retry and the first response's error is returned.
C2_RetryIffAcceptedAndRebuilt ==
    \A p \in Procs :
        LET c == call[p] IN
        FirstFailed(c) =>
            /\ (c.rebuilt # "no") => Accepted(c)
            /\ IF Accepted(c) /\ c.rebuilt = "ok"
                 THEN c.sent = 2 /\ c.retried /\ SecondFailureReturned(c)
                 ELSE /\ c.sent = 1
                      /\ ~c.retried
                      /\ Accepted(c) => c.rebuilt = "failed"
                      /\ ReturnsErrorOfResponse(c)

\* an accepted status, a rebuilt transport and a second attempt that failed
C2_Witness ==
    \E p \in Procs :
        LET c == call[p] IN
        /\ FirstFailed(c)
        /\ c.op = "RemoveAdmin"
        /\ Accepted(c)
        /\ c.rebuilt = "ok"
        /\ c.sent = 2
        /\ Len(c.statuses) = 2
        /\ c.statuses[2] >= 400
        /\ c.ret.err = "server"

\* C3: no minted token is attached to more than one request sent: the
\* request replayed by a retry carries a token other than the first
\* attempt's.
C3_FreshTokenPerRequest ==
    \A p \in Procs :
        LET w == call[p].wire IN
        \A i, j \in DOMAIN w :
            (i < j /\ w[i].req.auth # NoToken)
                => w[i].req.auth.jti # w[j].req.auth.jti

\* C4: every request sent, of GetAdmin and replayed ones too, carries a
\* token whose audience is the path of the request.
C4_EveryRequestAuthorized ==
    \A p \in Procs :
        LET w == call[p].wire IN
        \A i \in DOMAIN w :
            /\ w[i].req.auth # NoToken
            /\ w[i].req.auth.aud = w[i].req.path

\* C5: when an operation has returned, no response body it obtained is open.
C5_BodiesClosed ==
    \A p \in Procs : call[p].pc = "done" => call[p].open = {}

\* an aggregation that has returned
AggDone(c) == c.pc = "done" /\ c.api \in Aggs

\* the items of the pages, in the order of the pages
Flatten(pages) == Concat([i \in 1..Len(pages) |-> pages[i].items])

\* C6: when every page fetch succeeded, the pages the server returned being
\* P1..Pn with Pn the first whose next-cursor is empty, the aggregation
\* returns P1.items ++ ... ++ Pn.items and has made exactly n page fetches.
C6_AggregatesAllPages ==
    \A p \in Procs :
        LET c == call[p] IN
        AggDone(c) =>
            /\ c.out.kind = "ok" <=> Len(c.pages) = c.fetches
            /\ c.out.kind = "ok" =>
                 /\ c.pages # <<>>
                 /\ c.pages[Len(c.pages)].next = Empty
                 /\ \A i \in 1..(Len(c.pages) - 1) : c.pages[i].next # Empty
                 /\ ~c.out.isNil
                 /\ c.out.val = Flatten(c.pages)
                 /\ c.fetches = Len(c.pages)

\* three pages, the first and the last with items
C6_Witness ==
    \E p \in Procs :
        LET c == call[p] IN
        /\ AggDone(c)
        /\ c.api = "GetProvisioners"
        /\ c.out.kind = "ok"
        /\ Len(c.pages) = 3
        /\ c.pages[1].items # <<>>
        /\ c.pages[3].items # <<>>
        /\ Len(c.out.val) >= 4

\* C7: a page fetch that fails is the last one, and the aggregation returns
\* its error with a nil result: none of the items of the earlier pages.
C7_FailedPageAborts ==
    \A p \in Procs :
        LET c == call[p] IN
        c.api \in Aggs =>
            /\ c.fetches <= Len(c.pages) + 1
            /\ (AggDone(c) /\ Len(c.pages) < c.fetches) =>
                 /\ c.ret.kind = "err"
                 /\ c.out.kind = "err"
                 /\ c.out.err = c.ret.err
                 /\ c.out.msg = c.ret.msg
                 /\ c.out.isNil
                 /\ c.out.val = <<>>
                 /\ c.fetches = Len(c.pages) + 1

\* the second page fetch failed after the first page brought items
C7_Witness ==
    \E p \in Procs :
        LET c == call[p] IN
        /\ AggDone(c)
        /\ c.api = "GetAdmins"
        /\ c.fetches = 2
        /\ Len(c.pages) = 1
        /\ c.acc # <<>>
        /\ c.out.kind = "err"
        /\ c.out.err = "server"

\* the cursor the server reads from the i-th request sent
SentCursor(c, i) == QueryGet(c.wire[i].req.query, <<"cursor">>)

\* The requests sent are only ever added to, and every request is the last
\* one in the state that follows its send, where the process waits for the
\* response: the properties of the cursors look at the last request of these
\* states.
JustSent(c) == c.pc = "wait" /\ c.wire # <<>>

\* the cursor of the first page fetch is empty and the cursor of page fetch
\* k+1 is the next-cursor of page k
CursorRelayed(c) ==
    JustSent(c) =>
        LET i == Len(c.wire)
            k == c.wire[i].fetch
        IN /\ k = 1 => /\ SentCursor(c, i) = Empty
                       /\ <<"cursor">> \notin QueryKeys(c.wire[i].req.query)
           /\ k > 1 => /\ k - 1 \in DOMAIN c.pages
                       /\ SentCursor(c, i) = c.pages[k - 1].next

\* C8 as claimed: the cursor is relayed, and no cursor is sent in two page
\* fetches of one aggregation.
C8_CursorRelayedNeverResent ==
    \A p \in Procs :
        LET c == call[p]
            j == Len(c.wire)
        IN c.api \in Aggs =>
            /\ CursorRelayed(c)
            /\ JustSent(c) =>
                 \A i \in 1..(j - 1) :
                     c.wire[i].fetch < c.wire[j].fetch
                         => SentCursor(c, i) # SentCursor(c, j)

\* C8 (amended): the cursor of the first page fetch is empty and the cursor
\* of page fetch k+1 is the next-cursor the server returned with page k,
\* unmodified; a cursor is sent again only when the server returned it again.
C8_CursorRelayed ==
    \A p \in Procs :
        LET c == call[p]
            j == Len(c.wire)
        IN c.api \in Aggs =>
            /\ CursorRelayed(c)
            /\ JustSent(c) =>
                 \A i \in 1..(j - 1) :
                     (/\ c.wire[i].fetch < c.wire[j].fetch
                      /\ SentCursor(c, i) = SentCursor(c, j))
                         => /\ c.wire[i].fetch > 1
                            /\ c.pages[c.wire[i].fetch - 1].next
                                 = c.pages[c.wire[j].fetch - 1].next

\* the third page fetch sends the cursor the second sent, one with an
\* escaped character
C8_Witness ==
    \E p \in Procs :
        LET c == call[p] IN
        /\ c.api = "GetAdmins"
        /\ \E i, j \in DOMAIN c.wire :
             /\ c.wire[i].fetch = 2
             /\ c.wire[j].fetch = 3
             /\ SentCursor(c, i) = <<"c2", "&">>
             /\ SentCursor(c, j) = <<"c2", "&">>

\* a call of GetProvisioner or RemoveProvisioner whose options were applied
SelectorCall(c) ==
    /\ c.api \in {"GetProvisioner", "RemoveProvisioner"}
    /\ c.out.err # "options"

\* C9: GetProvisioner and RemoveProvisioner with neither id nor name fail
\* with the configuration error and have sent no request, minted no token
\* and left the transport handle as it was.
C9_NoSelectorFailsLocally ==
    \A p \in Procs :
        LET c == call[p] IN
        (SelectorCall(c) /\ c.opts.id = Empty /\ c.opts.name = Empty) =>
            /\ c.pc = "done"
            /\ c.out = OutErr("config", Empty)
            /\ c.wire = <<>>
            /\ c.sent = 0
            /\ c.minted = 0
            /\ c.req = NoReq
            /\ c.swaps = 0
            /\ transport = c.tr0

\* RemoveProvisioner without a selector has returned its error
C9_Witness ==
    \E p \in Procs :
        LET c == call[p] IN
        /\ c.api = "RemoveProvisioner"
        /\ c.opts.id = Empty
        /\ c.opts.name = Empty
        /\ c.out.err = "config"

\* the URL the operation of call c builds for the selector options o
SelectorURL(c, o) ==
    IF c.api = "GetProvisioner"
      THEN GetProvisionerURL([cursor |-> Empty, limit |-> 0,
                              id |-> o.id, name |-> o.name])
      ELSE RemoveProvisionerURL([cursor |-> Empty, limit |-> 0,
                                 id |-> o.id, name |-> o.name])

\* C10: with id and name both set, GetProvisioner and RemoveProvisioner
\* select by id: the request they build goes to the by-id path with the id as
\* its only query parameter, and is the request of the same call without the
\* name.
C10_IdTakesPrecedence ==
    \A p \in Procs :
        LET c == call[p] IN
        (/\ SelectorCall(c)
         /\ c.opts.id # Empty
         /\ c.opts.name # Empty
         /\ c.req # NoReq) =>
            /\ c.op = c.api
            /\ c.req.method = IF c.api = "GetProvisioner"
                                THEN "GET" ELSE "DELETE"
            /\ HasSuffix(c.req.path,
                         <<"/", "admin", "/", "provisioners", "/", "id">>)
            /\ ParseQuery(c.req.query) = << << <<"id">>, c.opts.id >> >>
            /\ c.req.auth.aud = c.req.path
            /\ LET u == SelectorURL(c, [id |-> c.opts.id, name |-> Empty])
               IN c.req.path = u.path /\ c.req.query = u.query
            /\ \A i \in DOMAIN c.wire : c.wire[i].req = c.req

\* RemoveProvisioner with both selectors has sent its request
C10_Witness ==
    \E p \in Procs :
        LET c == call[p] IN
        /\ c.api = "RemoveProvisioner"
        /\ c.opts.id # Empty
        /\ c.opts.name # Empty
        /\ c.wire # <<>>
        /\ c.pc = "done"

\* C11: when the predicate accepted the status and the rebuild of the
\* transport failed, the operation has returned without a retry: it sent one
\* request, the transport handle is the one that request was sent on, and
\* what it returned is the error decoded from the body of that response.
C11_RebuildFailureNoRetry ==
    \A p \in Procs :
        LET c == call[p] IN
        c.rebuilt = "failed" =>
            /\ c.pc \in {"done", "page"}
            /\ Len(c.statuses) = 1
            /\ c.statuses[1] >= 400
            /\ Accepted(c)
            /\ c.asked = 1
            /\ ~c.retried
            /\ c.sent = 1
            /\ c.swaps = 0
            /\ c.tr = transport
            /\ c.wire[Len(c.wire)].tr = transport
            /\ c.resp.status = c.statuses[1]
            /\ ReturnsErrorOfResponse(c)

\* GetProvisioner returned the message of its only response after a failed
\* rebuild
C11_Witness ==
    \E p \in Procs :
        LET c == call[p] IN
        /\ c.op = "GetProvisioner"
        /\ c.rebuilt = "failed"
        /\ c.statuses = <<401>>
        /\ c.out = OutErr("server", <<"m2">>)

\* C12: an operation that returned the failure of a send has received a
\* response to every request but the last one it sent; the predicate was not
\* consulted and the transport handle not swapped for the failed send, which
\* is the last request of the operation.
C12_SendFailureReturned ==
    \A p \in Procs :
        LET c == call[p] IN
        c.ret.err = "transport" =>
            /\ c.pc \in {"done", "page"}
            /\ c.ret = OutErr("transport", Empty)
            /\ c.sent = Len(c.statuses) + 1
            /\ c.asked = Len(c.statuses)
            /\ c.swaps = Len(c.statuses)
            /\ c.retried <=> c.sent = 2
            /\ c.tr = transport
            /\ c.wire[Len(c.wire)].tr = transport
            /\ c.api \notin Aggs => c.out = c.ret /\ Len(c.wire) = c.sent

\* the replayed request of GetAdminsPaginate failed to be sent
C12_Witness ==
    \E p \in Procs :
        LET c == call[p] IN
        /\ c.op = "GetAdminsPaginate"
        /\ c.out = OutErr("transport", Empty)
        /\ c.retried
        /\ c.sent = 2
        /\ c.statuses = <<500>>

\* the step mints a token in the call of p
Mints(p) == call'[p].minted = call[p].minted + 1

\* C13: a token minted for a request has the path of the request, without
\* the query, as its audience, a validity that starts at the time of the
\* mint and lasts DefaultValidity, which is positive, and an identifier that
\* no token minted before in the call has; the tokens of the requests sent
\* keep that audience and that validity.
C13_TokenBoundToPath ==
    [][\A p \in Procs :
          /\ Mints(p) =>
               LET t == call'[p].req.auth IN
               /\ t # NoToken
               /\ t.aud = call'[p].req.path
               /\ t.nbf = now
               /\ t.exp = t.nbf + DefaultValidity
               /\ t.exp > t.nbf
               /\ \A i \in DOMAIN call[p].wire :
                      call[p].wire[i].req.auth.jti # t.jti
          /\ \A i \in DOMAIN call'[p].wire :
               LET r == call'[p].wire[i].req IN
               r.auth # NoToken =>
                   /\ r.auth.aud = r.path
                   /\ r.auth.exp - r.auth.nbf = DefaultValidity
                   /\ r.auth.nbf <= now']_vars

\* two page fetches sent tokens minted for the same path at different
\* times, the second with a cursor in the query
C13_Witness ==
    \E p \in Procs :
        LET w == call[p].wire IN
        \E i, j \in DOMAIN w :
            /\ i < j
            /\ w[i].req.path = w[j].req.path
            /\ w[j].req.query # Empty
            /\ w[i].req.auth.aud = w[j].req.auth.aud
            /\ w[i].req.auth.nbf < w[j].req.auth.nbf
            /\ w[i].req.auth.jti # w[j].req.auth.jti

\* C14: on a client without a signing key, an operation that mints a token
\* returns an error to its caller, does not panic and sends no request.
C14_NoKeyReturnsError ==
    \A p \in Procs :
        LET c == call[p] IN
        (x5cJWK = "nil" /\ c.api \notin {"none", "GetAdmin"}) =>
            /\ c.pc = "done"
            /\ c.out.kind = "err"
            /\ c.out.isNil
            /\ c.wire = <<>>

C16_RetryOwnedByCall ==
    \A p \in Procs :
        LET c == call[p] IN
        /\ c.sent <= 2
        /\ c.asked <= 1
        /\ c.swaps <= 1
        /\ c.retried <=> c.swaps = 1
        /\ c.sent = 2 => c.retried
        /\ c.retried =>
             /\ c.statuses # <<>>
             /\ c.statuses[1] >= 400
             /\ Accepted(c)
             /\ c.rebuilt = "ok"
        /\ (c.statuses # <<>> /\ c.statuses[1] >= 400 /\ Accepted(c)) =>
             /\ c.rebuilt \in {"ok", "failed"}
             /\ c.rebuilt = "ok" <=> c.retried
             /\ c.asked = 1

\* both calls have retried and are in flight with their second request
C16_Witness ==
    /\ call["p1"].op = "CreateAdmin"
    /\ call["p2"].op = "UpdateProvisioner"
    /\ \A p \in Procs :
         /\ call[p].pc = "wait"
         /\ call[p].retried
         /\ call[p].sent = 2

\* the errors of the pre-flight faults: applying the options, marshalling
\* the body, minting the token, building the request
PreflightErrs == {"options", "marshal", "credential", "request"}

\* C17: an operation that returned the error of a pre-flight fault has sent
\* no request, has not consulted the predicate and has not swapped the
\* transport handle, which is the one the call began with.
C17_PreflightFaultSendsNothing ==
    \A p \in Procs :
        LET c == call[p] IN
        c.ret.err \in PreflightErrs =>
            /\ c.pc \in {"done", "page"}
            /\ c.ret = OutErr(c.ret.err, Empty)
            /\ c.req = NoReq
            /\ c.sent = 0
            /\ c.statuses = <<>>
            /\ c.asked = 0
            /\ ~c.retried
            /\ c.swaps = 0
            /\ c.api \notin Aggs =>
                 /\ c.pc = "done"
                 /\ c.out = c.ret
                 /\ c.wire = <<>>
                 /\ c.minted = 0
                 /\ transport = c.tr0

\* UpdateAdmin could not marshal its body
C17_Witness ==
    \E p \in Procs :
        LET c == call[p] IN
        /\ c.op = "UpdateAdmin"
        /\ c.pc = "done"
        /\ c.out = OutErr("marshal", Empty)
        /\ retryFunc = {200, 401, 500}

\* the call of an operation has ended
Ended(c) == c.pc \in {"done", "panic"} /\ c.api \in Ops

\* the last request of the operation was answered, with a status >= 400 and
\* an error body that can be decoded
TerminalServerError(c) ==
    /\ c.statuses # <<>>
    /\ Len(c.statuses) = c.sent
    /\ c.resp.status = c.statuses[Len(c.statuses)]
    /\ c.resp.status >= 400
    /\ c.resp.good

UndecodableSuccess(c) ==
    /\ c.pc \in {"done", "page"}
    /\ c.op \in ProtoOps \cup PageOps
    /\ c.statuses # <<>>
    /\ Len(c.statuses) = c.sent
    /\ c.resp.status = c.statuses[Len(c.statuses)]
    /\ c.resp.status < 400
    /\ ~c.resp.good

\* C19: an operation that returns a resource and ends on a response with a
\* status < 400 whose body cannot be decoded returns the decoding error and
\* no resource; the predicate is not consulted and the transport handle not
\* swapped for that response, and no request follows it.
C19_DecodeFailureIsTerminal ==
    \A p \in Procs :
        LET c == call[p] IN
        /\ UndecodableSuccess(c) =>
             /\ c.ret = OutErr("decode", Empty)
             /\ c.asked = Len(c.statuses) - 1
             /\ c.swaps = Len(c.statuses) - 1
             /\ c.retried <=> c.sent = 2
             /\ c.tr = transport
             /\ c.wire[Len(c.wire)].tr = transport
             /\ c.pc = "done" => c.out.kind = "err" /\ c.out.isNil
        /\ (c.pc \in {"done", "page"} /\ c.ret.kind = "ok"
              /\ c.op \in ProtoOps \cup PageOps) => c.resp.good

\* GetProvisioner got a 200 with a body that is no provisioner, on a client
\* whose predicate accepts 200
C19_Witness ==
    \E p \in Procs :
        LET c == call[p] IN
        /\ UndecodableSuccess(c)
        /\ c.op = "GetProvisioner"
        /\ retryFunc = {200, 401, 500}
        /\ c.statuses = <<200>>
        /\ c.out = OutErr("decode", Empty)

\* the server has returned a page with an empty next-cursor
Exhausted(c) == c.pages # <<>> /\ c.pages[Len(c.pages)].next = Empty

\* C20: an aggregation that returns its items does so on a page with an
\* empty next-cursor; after such a page no page is fetched; once the server
\* has returned such a page the aggregation returns its items; and an
\* aggregation that began ends.
C20_StopsAtEmptyCursor ==
    \A p \in {"p1"} :
        /\ [](LET c == call[p] IN
              c.api \in Aggs =>
                  /\ (c.pc = "done" /\ c.out.kind = "ok") => Exhausted(c)
                  /\ Exhausted(c) =>
                       /\ c.fetches = Len(c.pages)
                       /\ c.pc \in {"page", "done"}
                       /\ c.wire[Len(c.wire)].fetch = c.fetches
                  /\ \A i \in 1..(Len(c.pages) - 1) :
                         c.pages[i].next # Empty)
        /\ Exhausted(call[p]) ~>
               (call[p].pc = "done" /\ call[p].out.kind = "ok")
        /\ (call[p].api \in Aggs) ~> (call[p].pc \in {"done", "panic"})

\* GetAdmins returned after two pages, the first with the next-cursor c1
C20_Witness ==
    \E p \in Procs :
        LET c == call[p] IN
        /\ c.api = "GetAdmins"
        /\ c.pc = "done"
        /\ c.out.kind = "ok"
        /\ c.fetches = 2
        /\ Len(c.pages) = 2
        /\ c.pages[1].next = <<"c1">>
        /\ c.pages[2].next = Empty

\* the requests the aggregation sent for its page fetch k
SentFor(c, k) == Cardinality({i \in DOMAIN c.wire : c.wire[i].fetch = k})

\* C21: an aggregation sends at most two requests for a page fetch and at
\* least one for every page fetch that was followed by another, so between n
\* and 2n for n pages fetched; a page fetch has retried exactly when it
\* swapped the transport itself, and it retries when its own first status is
\* accepted and its rebuild does not fail, whatever the fetches before did.
C21_RetryPerPage ==
    \A p \in Procs :
        LET c == call[p] IN
        c.api \in Aggs =>
            /\ \A k \in 1..c.fetches :
                 /\ SentFor(c, k) <= 2
                 /\ k < c.fetches => SentFor(c, k) >= 1
            /\ SentFor(c, c.fetches) = c.sent
            /\ Len(c.wire) <= 2 * c.fetches
            /\ (c.pc = "done" /\ c.out.kind = "ok") =>
                 /\ c.fetches <= Len(c.wire)
                 /\ \A k \in 1..c.fetches : SentFor(c, k) >= 1
            /\ c.retried <=> c.swaps = 1
            /\ c.sent = 2 => c.retried
            /\ (c.statuses # <<>> /\ c.statuses[1] >= 400 /\ Accepted(c)
                  /\ c.rebuilt # "failed") => c.retried /\ c.rebuilt = "ok"

\* GetProvisioners returned two pages, each fetched with a retry
C21_Witness ==
    \E p \in Procs :
        LET c == call[p] IN
        /\ c.api = "GetProvisioners"
        /\ c.pc = "done"
        /\ c.out.kind = "ok"
        /\ c.fetches = 2
        /\ SentFor(c, 1) = 2
        /\ SentFor(c, 2) = 2

\* the operations that send a body
BodyOps == {"CreateAdmin", "UpdateAdmin", "CreateProvisioner",
            "UpdateProvisioner"}

\* C22: the requests an operation sends have the same method, path, query
\* and body, and those of an operation that sends a body all transmit the
\* whole marshalled body.
C22_ReplayIsIdentical ==
    \A p \in Procs :
        LET c == call[p] IN
        \A i, j \in DOMAIN c.wire :
            (i < j /\ c.wire[i].fetch = c.wire[j].fetch) =>
                /\ c.wire[j].req.method = c.wire[i].req.method
                /\ c.wire[j].req.path = c.wire[i].req.path
                /\ c.wire[j].req.query = c.wire[i].req.query
                /\ c.wire[j].req.body = c.wire[i].req.body
                /\ c.op \in BodyOps =>
                     /\ c.wire[j].req.body = c.req.body
                     /\ c.wire[j].req.body # NoBody

\* p receives a response in this step
Answered(p) ==
    /\ call[p].pc = "wait"
    /\ Len(call'[p].statuses) = Len(call[p].statuses) + 1

\* the status of the response p receives in this step
AnswerStatus(p) == call'[p].statuses[Len(call'[p].statuses)]

\* p goes back to its retry label in this step
Retries(p) == ~call[p].retried /\ call'[p].retried

\* C23: the handle changes exactly in the steps in which a call retries, by
\* one swap per retry and at most one per call; a response with a status
\* < 400 is not shown to the predicate, and a response that is not retried
\* (status < 400, status the predicate refuses, no predicate, rebuild failed,
\* or a send failure) leaves the handle as it was.
C23_SwapOnlyInRetry ==
    [][/\ transport' # transport <=> \E p \in Procs : Retries(p)
       /\ transport' # transport => transport' = transport + 1
       /\ \A p \in Procs :
            /\ call'[p].swaps <= 1
            /\ Retries(p) =>
                 /\ Answered(p)
                 /\ AnswerStatus(p) >= 400
                 /\ AnswerStatus(p) \in retryFunc
                 /\ call'[p].swaps = call[p].swaps + 1
                 /\ call'[p].swaps = 1
            /\ (Answered(p) /\ AnswerStatus(p) < 400) =>
                 /\ call'[p].asked = call[p].asked
                 /\ transport' = transport
            /\ (Answered(p) /\ AnswerStatus(p) >= 400
                  /\ (retryFunc = NoFunc \/ AnswerStatus(p) \notin retryFunc)) =>
                 /\ transport' = transport
                 /\ call'[p].swaps = call[p].swaps
                 /\ retryFunc = NoFunc => call'[p].asked = call[p].asked
            /\ (call'[p].pc = "done" /\ call'[p].api \notin Aggs) =>
                 transport' = call'[p].tr0
                                + (IF call'[p].retried THEN 1 ELSE 0)]_vars

\* an operation returned the error of a status the predicate refuses, the
\* handle being the one of its call
C23_Witness ==
    \E p \in Procs :
        LET c == call[p] IN
        /\ c.pc = "done"
        /\ c.op = "UpdateAdmin"
        /\ retryFunc = {401}
        /\ c.statuses = <<500>>
        /\ c.asked = 1
        /\ c.swaps = 0
        /\ c.rebuilt = "no"
        /\ transport = c.tr0

\* C24: the handle never goes back to an earlier one: the handle a retry
\* installed is current when the retrying call ends, however its replay
\* ends, and until another retry replaces it by a newer one; a call that
\* begins later begins on it and every dispatch is made on the handle that
\* is current.
C24_SwapNeverRolledBack ==
    [][/\ transport' >= transport
       /\ \A p \in Procs :
            /\ (call[p].retried /\ call[p].pc = "wait") =>
                 /\ call[p].tr >= call[p].tr0 + 1
                 /\ transport' >= call[p].tr
                 /\ (call'[p].pc = "done" /\ call'[p].retried) =>
                        transport' = transport
            /\ (call[p].pc = "done" /\ call[p].retried) =>
                 transport' >= call[p].tr
            /\ (call[p].pc = "idle" /\ call'[p].pc # "idle") =>
                 /\ call'[p].tr0 = transport
                 /\ \A q \in Procs : call[q].retried =>
                        call'[p].tr0 >= call[q].tr0 + 1
            /\ (call[p].pc = "send" /\ call'[p].pc = "wait") =>
                 /\ call'[p].tr = transport
                 /\ \A q \in Procs : call[q].retried =>
                        call'[p].tr >= call[q].tr0 + 1]_vars

\* p1 retried and its replay failed at transport level; p2, called after the
\* swap, has its first request in flight on the handle p1's retry installed
C24_Witness ==
    /\ call["p1"].pc = "done"
    /\ call["p1"].retried
    /\ call["p1"].out.err = "transport"
    /\ call["p1"].tr = 1
    /\ transport = 1
    /\ call["p2"].pc = "wait"
    /\ ~call["p2"].retried
    /\ call["p2"].tr0 = 1
    /\ call["p2"].tr = 1

\* the request of page fetch k of an aggregation, as the loop builds it: the
\* cursor the loop holds (none for the first page fetch, then the one of the
\* page before) and the page size 100
LoopQuery(c, k) ==
    rawQuery([cursor |-> IF k = 1 THEN Empty ELSE c.pages[k - 1].next,
              limit |-> PageLimit])

\* C25: whatever cursor and page size the caller passes to GetAdmins or
\* GetProvisioners, the first page fetch is sent without a cursor, every
\* request asks for the page size 100 and carries the cursor of the loop,
\* and nothing of the caller's options is in a request.
C25_CallerOptionsIgnored ==
    \A p \in Procs :
        LET c == call[p] IN
        c.api \in Aggs =>
            \A i \in DOMAIN c.wire :
                LET q == c.wire[i].req.query
                    k == c.wire[i].fetch
                IN /\ QueryGet(q, <<"limit">>) = Itoa(PageLimit)
                   /\ QueryKeys(q) \subseteq {<<"cursor">>, <<"limit">>}
                   /\ k = 1 => <<"cursor">> \notin QueryKeys(q)
                   /\ q = LoopQuery(c, k)
                   /\ c.given.limit # 0 =>
                        QueryGet(q, <<"limit">>) # Itoa(c.given.limit)
                   /\ (c.given.cursor # Empty /\ k = 1) =>
                        SentCursor(c, i) # c.given.cursor

\* GetProvisioners, called with the cursor c1 and the page size 25, has sent
\* its first request and waits for the page
C25_Witness ==
    \E p \in Procs :
        LET c == call[p] IN
        /\ c.api = "GetProvisioners"
        /\ c.given = [cursor |-> <<"c1">>, limit |-> 25]
        /\ c.pc = "wait"
        /\ c.fetches = 1
        /\ Len(c.wire) = 1
        /\ c.wire[1].req.query = rawQuery([cursor |-> Empty, limit |-> 100])

\* C26: a method of MockDB whose function is set returns what the function
\* returns; otherwise, with MockError set, it returns MockError and the zero
\* value; otherwise it returns without a panic and without an error, and a
\* method with a value returns MockRet1 (unset, or of the method's type).
C26_MockPrecedence ==
    LET m == dbCall.method IN
    m # "none" =>
        IF m \in mockDB.fns
          THEN /\ dbCall.kind = "ret"
               /\ dbCall.err = mockDB.fnOut.err
               /\ m \in ValueMethods => dbCall.val = mockDB.fnOut.val
        ELSE IF mockDB.MockError # "nil"
          THEN /\ dbCall.kind = "ret"
               /\ dbCall.err = mockDB.MockError
               /\ m \in ValueMethods => dbCall.val = Zero(ResultType[m])
        ELSE (m \in ErrorMethods
                \/ mockDB.MockRet1.type \in {"none", ResultType[m]}) =>
               /\ dbCall.kind = "ret"
               /\ dbCall.err = "nil"
               /\ m \in ValueMethods => dbCall.val = mockDB.MockRet1.val

====
